---- MODULE Spec2Model ----
(***************************************************************************)
(* Model of the weather CLI (class WeatherApp).  Two builds of the same    *)
(* program are in the repository: src/app.js and src/unnamed/part_000      *)
(* (the documented copy).  They differ in one place: app.js line 208 ends  *)
(* with a stray identifier `x` after the last menu line.                   *)
(*                                                                         *)
(* Strings the user types are sequences of one-character strings so that   *)
(* trim() is computed, not assumed.  JSON values held in memory or in a    *)
(* file are records [tag, items]; a file is a record [kind, value].        *)
(***************************************************************************)
EXTENDS Integers, Sequences, FiniteSets, TLC

\* ------------------------------------------------------------------ bounds
MaxDay == 4
MaxEntries == 6
MaxSamples == 3

\* ------------------------------------------------------- program constants
PresentLimit == 5
DaySeconds == 86400

\* ------------------------------------------------------------ input domains
Builds == {"app.js", "part_000"}
TzOffsets == {0, 32400}
RawInputs == {<<>>, <<" ">>, <<"T">>, <<" ", "T", " ">>, <<"t">>, <<"L">>}
KeyInputs == {"", "k1"}
NoKey == "<null>"
WriteOutcomes == {"ok", "fail", "truncated"}
Statuses == {401, 404, 500}

\* ------------------------------------------------------------- JSON values
JArray(items) == [tag |-> "array", items |-> items]
JNull == [tag |-> "null", items |-> <<>>]
JObject == [tag |-> "object", items |-> <<>>]
NoConfig == [hasKey |-> FALSE, apiKey |-> ""]

File(kind, value) == [kind |-> kind, value |-> value]

InitialFavoriteLists ==
    {<<>>} \cup {<<c>> : c \in {<<"T">>, <<"t">>, <<"L">>}}
           \cup {<<<<"T">>, <<"L">>>>, <<<<"L">>, <<"T">>>>, <<<<"T">>, <<"t">>>>,
                 <<<<"T">>, <<"T">>>>}

InitialFavoritesFiles ==
    {File(k, JNull) : k \in {"absent", "unreadable", "malformed"}}
    \cup {File("json", v) : v \in {JNull, JObject}}
    \cup {File("json", JArray(l)) : l \in InitialFavoriteLists}

InitialConfigFiles ==
    {File(k, NoConfig) : k \in {"absent", "malformed"}}
    \cup {File("json", NoConfig)}
    \cup {File("json", [hasKey |-> TRUE, apiKey |-> k]) : k \in KeyInputs}

\* --------------------------------------------------------- string helpers
RECURSIVE trimStart(_)
trimStart(s) ==
    IF s # <<>> /\ Head(s) = " " THEN trimStart(Tail(s)) ELSE s

RECURSIVE trimEnd(_)
trimEnd(s) ==
    IF s # <<>> /\ s[Len(s)] = " " THEN trimEnd(SubSeq(s, 1, Len(s) - 1)) ELSE s

trim(s) == trimEnd(trimStart(s))

\* ---------------------------------------------------------- array helpers
includes(list, city) == \E i \in 1..Len(list) : list[i] = city

\* 0-based index of the first occurrence, -1 when absent
indexOf(list, city) ==
    IF includes(list, city)
    THEN (CHOOSE i \in 1..Len(list) :
              list[i] = city /\ \A j \in 1..(i - 1) : list[j] # city) - 1
    ELSE -1

\* splice(index, 1) with a 0-based index
splice(list, index) ==
    SubSeq(list, 1, index) \o SubSeq(list, index + 2, Len(list))

\* ------------------------------------------------------------------ files
\* fs.writeFileSync: "ok" replaces the content; "fail" throws before the file
\* is touched; "truncated" throws after the file was opened for writing.
writeFileSync(file, value, blank, w) ==
    CASE w = "ok" -> File("json", value)
      [] w = "fail" -> file
      [] OTHER -> File("malformed", blank)

\* loadApiKey: the key, or NoKey for null / undefined
loadApiKey(file) ==
    IF file.kind = "json" /\ file.value.hasKey THEN file.value.apiKey ELSE NoKey

\* loadFavoriteCities: [raised, value]
loadFavoriteCities(file) ==
    CASE file.kind = "absent" -> [raised |-> FALSE, value |-> JArray(<<>>)]
      [] file.kind = "json" -> [raised |-> FALSE, value |-> file.value]
      [] OTHER -> [raised |-> FALSE, value |-> JArray(<<>>)]

saveFavoriteCities(fav, file, w) ==
    [favoritesFile |-> writeFileSync(file, fav, JNull, w), raised |-> w # "ok"]

\* -------------------------------------------------------- favorites store
\* Result of a store operation: the new in-memory list, the new file, whether
\* an error was raised (and its kind), the outcome line printed, and the
\* number of writeFileSync calls made.
StoreResult(fav, file, raised, message, outcome, nwrites) ==
    [favoriteCities |-> fav, favoritesFile |-> file, raised |-> raised,
     message |-> message, outcome |-> outcome, writes |-> nwrites]

\* addFavoriteCity without the includes() test: every add pushes and saves
addFavoriteCityNoCheck(fav, file, city, w) ==
    IF fav.tag # "array"
    THEN StoreResult(fav, file, TRUE, "TypeError", "none", 0)
    ELSE LET pushed == JArray(Append(fav.items, city))
             saved == saveFavoriteCities(pushed, file, w)
         IN  IF saved.raised
             THEN StoreResult(pushed, saved.favoritesFile, TRUE, "WriteError", "none", 1)
             ELSE StoreResult(pushed, saved.favoritesFile, FALSE, "none", "added", 1)

addFavoriteCity(fav, file, city, w) ==
    IF fav.tag # "array"
    THEN StoreResult(fav, file, TRUE, "TypeError", "none", 0)
    ELSE IF ~includes(fav.items, city)
    THEN LET pushed == JArray(Append(fav.items, city))
             saved == saveFavoriteCities(pushed, file, w)
         IN  IF saved.raised
             THEN StoreResult(pushed, saved.favoritesFile, TRUE, "WriteError", "none", 1)
             ELSE StoreResult(pushed, saved.favoritesFile, FALSE, "none", "added", 1)
    ELSE StoreResult(fav, file, FALSE, "none", "already_present", 0)

\* removeFavoriteCity without the `index > -1` test: splice(-1, 1) removes
\* the last element and the list is saved
removeFavoriteCityNoGuard(fav, file, city, w) ==
    IF fav.tag # "array"
    THEN StoreResult(fav, file, TRUE, "TypeError", "none", 0)
    ELSE LET index == indexOf(fav.items, city)
             at == IF index > -1 THEN index ELSE Len(fav.items) - 1
             spliced == JArray(IF fav.items = <<>> THEN <<>> ELSE splice(fav.items, at))
             saved == saveFavoriteCities(spliced, file, w)
         IN  IF saved.raised
             THEN StoreResult(spliced, saved.favoritesFile, TRUE, "WriteError", "none", 1)
             ELSE StoreResult(spliced, saved.favoritesFile, FALSE, "none", "removed", 1)

removeFavoriteCity(fav, file, city, w) ==
    IF fav.tag # "array"
    THEN StoreResult(fav, file, TRUE, "TypeError", "none", 0)
    ELSE LET index == indexOf(fav.items, city)
         IN  IF index > -1
             THEN LET spliced == JArray(splice(fav.items, index))
                      saved == saveFavoriteCities(spliced, file, w)
                  IN  IF saved.raised
                      THEN StoreResult(spliced, saved.favoritesFile, TRUE, "WriteError", "none", 1)
                      ELSE StoreResult(spliced, saved.favoritesFile, FALSE, "none", "removed", 1)
             ELSE StoreResult(fav, file, FALSE, "none", "not_found", 0)

\* displayFavoriteCities: raises a TypeError when favoriteCities is not an
\* array (null has no length; an object or number has no forEach).
displayFavoriteCities(fav) ==
    [raised |-> fav.tag # "array",
     empty |-> fav.tag = "array" /\ Len(fav.items) = 0]

\* ---------------------------------------------------------- weather client
\* An HTTP outcome: kind "ok" (body), "status" (error.response.status) or
\* "network" (no error.response).
Body(wellFormed, list) == [wellFormed |-> wellFormed, list |-> list]
NoBody == Body(FALSE, <<>>)
Http(kind, status, body) == [kind |-> kind, status |-> status, body |-> body]
NoResponse == Http("none", 0, NoBody)

FetchResult(raised, message, data) ==
    [raised |-> raised, message |-> message, data |-> data]
NoFetch == FetchResult(FALSE, "none", NoBody)

\* getCurrentWeather without the 401 branch
getCurrentWeatherNo401(r) ==
    IF r.kind = "ok"
    THEN FetchResult(FALSE, "none", r.body)
    ELSE IF r.kind = "status" /\ r.status = 404
    THEN FetchResult(TRUE, "CityNotFound", NoBody)
    ELSE FetchResult(TRUE, "FetchFailed", NoBody)

getCurrentWeather(r) ==
    IF r.kind = "ok"
    THEN FetchResult(FALSE, "none", r.body)
    ELSE IF r.kind = "status" /\ r.status = 404
    THEN FetchResult(TRUE, "CityNotFound", NoBody)
    ELSE IF r.kind = "status" /\ r.status = 401
    THEN FetchResult(TRUE, "InvalidCredential", NoBody)
    ELSE FetchResult(TRUE, "FetchFailed", NoBody)

getForecast(r) ==
    IF r.kind = "ok"
    THEN FetchResult(FALSE, "none", r.body)
    ELSE FetchResult(TRUE, "ForecastFetchFailed", NoBody)

\* displayCurrentWeather raises a TypeError on a body without the report's
\* fields (data.sys, data.main, data.weather[0], data.wind).
displayCurrentWeather(data) == [raised |-> ~data.wellFormed]

\* ------------------------------------------------------ forecast aggregator
Entry(dt, temp, weather, humidity, windSpeed) ==
    [dt |-> dt, temp |-> temp, weather |-> weather, humidity |-> humidity,
     windSpeed |-> windSpeed]

\* new Date(dt * 1000).toLocaleDateString('ja-JP'): the calendar day of the
\* instant in the runtime's time zone (the y/m/d text is one-to-one with it)
dateKey(dt, tz) == (dt + tz) \div DaySeconds

\* the forEach with the bucket's description, humidity and wind assigned on
\* every sample instead of only when the bucket is created
RECURSIVE dailyForecastsLastWins(_, _)
dailyForecastsLastWins(list, tz) ==
    IF list = <<>> THEN <<>>
    ELSE LET prev == dailyForecastsLastWins(SubSeq(list, 1, Len(list) - 1), tz)
             item == list[Len(list)]
             key == dateKey(item.dt, tz)
         IN  IF \E i \in 1..Len(prev) : prev[i].date = key
             THEN LET i == CHOOSE i \in 1..Len(prev) : prev[i].date = key
                  IN  [prev EXCEPT ![i] = [date |-> key, temps |-> Append(@.temps, item.temp),
                                           weather |-> item.weather,
                                           humidity |-> item.humidity,
                                           windSpeed |-> item.windSpeed]]
             ELSE Append(prev, [date |-> key, temps |-> <<item.temp>>,
                                weather |-> item.weather,
                                humidity |-> item.humidity,
                                windSpeed |-> item.windSpeed])

\* the forEach of displayForecast: buckets in insertion order of their keys
RECURSIVE dailyForecasts(_, _)
dailyForecasts(list, tz) ==
    IF list = <<>> THEN <<>>
    ELSE LET prev == dailyForecasts(SubSeq(list, 1, Len(list) - 1), tz)
             item == list[Len(list)]
             key == dateKey(item.dt, tz)
         IN  IF \E i \in 1..Len(prev) : prev[i].date = key
             THEN LET i == CHOOSE i \in 1..Len(prev) : prev[i].date = key
                  IN  [prev EXCEPT ![i].temps = Append(@, item.temp)]
             ELSE Append(prev, [date |-> key, temps |-> <<item.temp>>,
                                weather |-> item.weather,
                                humidity |-> item.humidity,
                                windSpeed |-> item.windSpeed])

\* slice(-5) in place of slice(0, 5): the last five buckets
slice5Last(buckets) ==
    SubSeq(buckets, IF Len(buckets) < PresentLimit THEN 1 ELSE Len(buckets) - PresentLimit + 1,
           Len(buckets))

\* Object.values(dailyForecasts).slice(0, 5)
slice5(buckets) ==
    SubSeq(buckets, 1, IF Len(buckets) < PresentLimit THEN Len(buckets) ELSE PresentLimit)

displayForecast(list, tz) == slice5(dailyForecasts(list, tz))

\* Math.min(...temps), Math.max(...temps) of a presented bucket
minTemp(forecast) ==
    CHOOSE t \in {forecast.temps[i] : i \in 1..Len(forecast.temps)} :
        \A i \in 1..Len(forecast.temps) : t <= forecast.temps[i]
maxTemp(forecast) ==
    CHOOSE t \in {forecast.temps[i] : i \in 1..Len(forecast.temps)} :
        \A i \in 1..Len(forecast.temps) : t >= forecast.temps[i]

\* Number.prototype.toFixed(1): a temperature in hundredths of a degree to
\* the tenths its text shows; the magnitude is rounded, a tie goes up.
\* (Exact for the binary-exact hundredths .00 .25 .50 .75 used as samples.)
toFixed1(t) == IF t < 0 THEN -((5 - t) \div 10) ELSE (t + 5) \div 10

\* the block of lines printed for one bucket (lines 148-153)
renderForecast(forecast) ==
    [date |-> forecast.date,
     min |-> toFixed1(minTemp(forecast)),
     max |-> toFixed1(maxTemp(forecast)),
     weather |-> forecast.weather,
     humidity |-> forecast.humidity,
     windSpeed |-> forecast.windSpeed]

\* the forEach over the presented buckets (lines 144-154)
renderAll(buckets) == [k \in 1..Len(buckets) |-> renderForecast(buckets[k])]

\* ------------------------------------------------------- credential store
setupApiKey(key, file, input, w) ==
    [apiKey |-> IF w = "ok" THEN input ELSE key,
     configFile |-> writeFileSync(file, [hasKey |-> TRUE, apiKey |-> input], NoConfig, w),
     raised |-> w # "ok",
     message |-> IF w = "ok" THEN "none" ELSE "WriteError",
     writes |-> 1]

\* !this.apiKey
falsy(key) == key = NoKey \/ key = ""

\* ---------------------------------------------------------- menu controller
\* The menu lines printed at the top of each iteration (lines 201-208); in
\* app.js the statement `x` after the last line raises a ReferenceError.
printMenu(b) == [raised |-> b = "app.js", message |-> "ReferenceError"]

\* a catch that reports the error and leaves the loop
runCatchLeave(raised) ==
    [pc |-> IF raised THEN "terminated" ELSE "menu", diag |-> IF raised THEN 1 ELSE 0]

\* The try/catch of the while loop: a raised error prints one diagnostic
\* line and the loop continues.
runCatch(raised) == [pc |-> "menu", diag |-> IF raised THEN 1 ELSE 0]

\* the client call without `await`: the handler returns at once
awaitRequestNoAwait(ep) == [pc |-> "menu", reqs |-> 1, inflight |-> 1]

\* `await` of the client call in handleCurrentWeather / handleForecast: the
\* handler is suspended until the response arrives.
awaitRequest(ep) ==
    [pc |-> IF ep = "weather" THEN "awaitWeather" ELSE "awaitForecast",
     reqs |-> 1, inflight |-> 1]

\* a top-level handler that ends the process with process.exit(1)
topLevelExit1(rejected) ==
    [appError |-> rejected, exitStatus |-> IF rejected THEN 1 ELSE 0]

\* app.run().catch(...): a rejection is logged with console.error; nothing
\* sets process.exitCode, so the process ends with status 0 either way.
topLevel(rejected) == [appError |-> rejected, exitStatus |-> 0]

\* ------------------------------------------------------------------ state
VARIABLES
    build,           \* which source file is run
    tzOffset,        \* the runtime's local time zone, seconds east of UTC
    pc,              \* "run", "menu", "awaitWeather", "awaitForecast", "terminated"
    apiKey,          \* this.apiKey
    configFile,      \* weather_config.json
    favoriteCities,  \* this.favoriteCities
    favoritesFile,   \* favorite_cities.json
    choice,          \* the choice read in the current iteration ("none" before)
    call,            \* the store method the handler called ("none" if none)
    arg,             \* the trimmed city passed to the handler's call
    outcome,         \* the outcome line of the store method
    diag,            \* number of "error" lines printed by the loop's catch
    errMsg,          \* the error raised in the current iteration
    farewell,        \* the farewell line was printed
    appError,        \* the top-level catch printed its diagnostic
    exitStatus,      \* -1 while the process runs, then its exit status
    reqs,            \* HTTP requests issued in the current iteration
    writes,          \* writeFileSync calls in the current iteration
    inflight,        \* HTTP requests without a response yet
    endpoint,        \* endpoint of the last request
    resp,            \* outcome of the last request
    fetched,         \* what the client returned or raised for it
    fcList,          \* data.list handed to displayForecast
    presented,       \* the day buckets displayForecast printed
    printed          \* the block of lines printed for each of them

vars == <<build, tzOffset, pc, apiKey, configFile, favoriteCities, favoritesFile,
          choice, call, arg, outcome, diag, errMsg, farewell, appError,
          exitStatus, reqs, writes, inflight, endpoint, resp, fetched,
          fcList, presented, printed>>

env == <<build, tzOffset>>
session == <<apiKey, configFile>>
favorites == <<favoriteCities, favoritesFile>>
network == <<endpoint, resp, fetched>>
forecast == <<fcList, presented, printed>>

\* forecast bodies the API returns in the menu specification
ExampleList ==
    <<Entry(10800, 1000, "clear", 40, 3), Entry(54000, 2000, "rain", 50, 4),
      Entry(140400, 500, "cloud", 60, 5)>>
WeatherBodies == {Body(TRUE, <<>>), Body(FALSE, <<>>)}
ForecastBodies == {Body(TRUE, <<>>), Body(TRUE, ExampleList), Body(FALSE, <<>>)}
Failures == {Http("status", st, NoBody) : st \in Statuses} \cup {Http("network", 0, NoBody)}

\* the constructor (lines 7-12) has run
Init ==
    /\ build \in Builds
    /\ tzOffset \in TzOffsets
    /\ pc = "run"
    /\ configFile \in InitialConfigFiles
    /\ favoritesFile \in InitialFavoritesFiles
    /\ apiKey = loadApiKey(configFile)
    /\ favoriteCities = loadFavoriteCities(favoritesFile).value
    /\ choice = "none" /\ call = "none" /\ arg = <<>> /\ outcome = "none"
    /\ diag = 0 /\ errMsg = "none" /\ farewell = FALSE /\ appError = FALSE
    /\ exitStatus = -1
    /\ reqs = 0 /\ writes = 0 /\ inflight = 0
    /\ endpoint = "none" /\ resp = NoResponse /\ fetched = NoFetch
    /\ fcList = <<>> /\ presented = <<>> /\ printed = <<>>

\* effect of the loop's catch on the console and the control state
Caught(raised, message) ==
    /\ pc' = runCatch(raised).pc
    /\ diag' = runCatch(raised).diag
    /\ errMsg' = IF raised THEN message ELSE "none"

\* an error that leaves run(): the promise rejects and the top-level handler
\* runs; nothing else is scheduled, so the process ends
Escaped(message) ==
    /\ pc' = "terminated"
    /\ errMsg' = message
    /\ appError' = topLevel(TRUE).appError
    /\ exitStatus' = topLevel(TRUE).exitStatus

\* start of a loop iteration: nothing from the previous one is kept
NewIteration ==
    /\ pc = "menu"
    /\ ~printMenu(build).raised

NoStoreCall == call' = "none" /\ arg' = <<>> /\ outcome' = "none"
NoTraffic == reqs' = 0 /\ inflight' = 0 /\ endpoint' = "none" /\ resp' = NoResponse /\ fetched' = NoFetch
NoForecast == fcList' = <<>> /\ presented' = <<>> /\ printed' = <<>>

\* run(), lines 193-198: welcome line, then setupApiKey when no key is loaded
run(input, w) ==
    /\ pc = "run"
    /\ IF falsy(apiKey)
       THEN LET r == setupApiKey(apiKey, configFile, input, w)
            IN  /\ apiKey' = r.apiKey
                /\ configFile' = r.configFile
                /\ writes' = r.writes
                /\ IF r.raised
                   THEN Escaped(r.message) /\ diag' = 0
                   ELSE /\ pc' = "menu" /\ errMsg' = "none" /\ diag' = 0
                        /\ UNCHANGED <<appError, exitStatus>>
       ELSE /\ pc' = "menu"
            /\ UNCHANGED <<session, writes, errMsg, diag, appError, exitStatus>>
    /\ UNCHANGED <<env, favorites, choice, call, arg, outcome, farewell, reqs,
                   inflight, network, forecast>>

\* app.js line 208: the menu is printed and `x` raises before the prompt
menuCrash ==
    /\ pc = "menu"
    /\ printMenu(build).raised
    /\ Escaped(printMenu(build).message)
    /\ choice' = "none" /\ diag' = 0 /\ writes' = 0
    /\ NoStoreCall /\ NoTraffic /\ NoForecast
    /\ UNCHANGED <<env, session, favorites, farewell>>

\* getCityInput + the request of handleCurrentWeather / handleForecast
StartFetch(c, ep, input) ==
    /\ NewIteration
    /\ choice' = c
    /\ call' = "none" /\ outcome' = "none"
    /\ writes' = 0
    /\ resp' = NoResponse /\ fetched' = NoFetch
    /\ NoForecast
    /\ LET shown == displayFavoriteCities(favoriteCities)
           city == trim(input)
       IN  IF shown.raised
           THEN /\ Caught(TRUE, "TypeError")
                /\ arg' = <<>> /\ reqs' = 0 /\ inflight' = 0 /\ endpoint' = "none"
           ELSE IF city = <<>>
           THEN /\ Caught(FALSE, "none")
                /\ arg' = <<>> /\ reqs' = 0 /\ inflight' = 0 /\ endpoint' = "none"
           ELSE /\ pc' = awaitRequest(ep).pc
                /\ reqs' = awaitRequest(ep).reqs
                /\ inflight' = awaitRequest(ep).inflight
                /\ endpoint' = ep
                /\ arg' = city
                /\ diag' = 0 /\ errMsg' = "none"
    /\ UNCHANGED <<env, session, favorites, farewell, appError, exitStatus>>

handleCurrentWeather(input) == StartFetch("1", "weather", input)

handleForecast(input) == StartFetch("2", "forecast", input)

\* the response of the weather endpoint arrives: getCurrentWeather returns
\* or raises, then displayCurrentWeather
weatherResponse(r) ==
    /\ pc = "awaitWeather"
    /\ inflight' = inflight - 1
    /\ resp' = r
    /\ fetched' = getCurrentWeather(r)
    /\ IF getCurrentWeather(r).raised
       THEN Caught(TRUE, getCurrentWeather(r).message)
       ELSE Caught(displayCurrentWeather(getCurrentWeather(r).data).raised, "TypeError")
    /\ UNCHANGED <<env, session, favorites, choice, call, arg, outcome, farewell,
                   appError, exitStatus, reqs, writes, endpoint, forecast>>

\* the response of the forecast endpoint arrives: getForecast returns or
\* raises, then displayForecast (data.list.forEach raises without a list)
forecastResponse(r) ==
    /\ pc = "awaitForecast"
    /\ inflight' = inflight - 1
    /\ resp' = r
    /\ fetched' = getForecast(r)
    /\ IF getForecast(r).raised
       THEN Caught(TRUE, getForecast(r).message) /\ UNCHANGED forecast
       ELSE IF ~getForecast(r).data.wellFormed
       THEN Caught(TRUE, "TypeError") /\ UNCHANGED forecast
       ELSE /\ Caught(FALSE, "none")
            /\ fcList' = getForecast(r).data.list
            /\ presented' = displayForecast(getForecast(r).data.list, tzOffset)
            /\ printed' = renderAll(presented')
    /\ UNCHANGED <<env, session, favorites, choice, call, arg, outcome, farewell,
                   appError, exitStatus, reqs, writes, endpoint>>

\* choice 3
listFavorites ==
    /\ NewIteration
    /\ choice' = "3"
    /\ Caught(displayFavoriteCities(favoriteCities).raised, "TypeError")
    /\ writes' = 0
    /\ NoStoreCall /\ NoTraffic /\ NoForecast
    /\ UNCHANGED <<env, session, favorites, farewell, appError, exitStatus>>

\* a handler that ends in a store call: its effect on memory, file, console
StoreCall(name, city, r) ==
    /\ call' = name /\ arg' = city /\ outcome' = r.outcome
    /\ favoriteCities' = r.favoriteCities
    /\ favoritesFile' = r.favoritesFile
    /\ writes' = r.writes
    /\ Caught(r.raised, r.message)

NoStoreEffect(raised, message) ==
    /\ NoStoreCall
    /\ writes' = 0
    /\ Caught(raised, message)
    /\ UNCHANGED favorites

\* choice 4
handleAddFavorite(input, w) ==
    /\ NewIteration
    /\ choice' = "4"
    /\ IF trim(input) # <<>>
       THEN StoreCall("addFavoriteCity", trim(input),
                      addFavoriteCity(favoriteCities, favoritesFile, trim(input), w))
       ELSE NoStoreEffect(FALSE, "none")
    /\ NoTraffic /\ NoForecast
    /\ UNCHANGED <<env, session, farewell, appError, exitStatus>>

\* choice 5
handleRemoveFavorite(input, w) ==
    /\ NewIteration
    /\ choice' = "5"
    /\ LET shown == displayFavoriteCities(favoriteCities)
       IN  IF shown.raised
           THEN NoStoreEffect(TRUE, "TypeError")
           ELSE IF shown.empty \/ trim(input) = <<>>
           THEN NoStoreEffect(FALSE, "none")
           ELSE StoreCall("removeFavoriteCity", trim(input),
                          removeFavoriteCity(favoriteCities, favoritesFile, trim(input), w))
    /\ NoTraffic /\ NoForecast
    /\ UNCHANGED <<env, session, farewell, appError, exitStatus>>

\* choice 6
changeApiKey(input, w) ==
    /\ NewIteration
    /\ choice' = "6"
    /\ LET r == setupApiKey(apiKey, configFile, input, w)
       IN  /\ apiKey' = r.apiKey
           /\ configFile' = r.configFile
           /\ writes' = r.writes
           /\ Caught(r.raised, r.message)
    /\ NoStoreCall /\ NoTraffic /\ NoForecast
    /\ UNCHANGED <<env, favorites, farewell, appError, exitStatus>>

\* choice 7: farewell, return; run()'s promise resolves and the process ends
exit ==
    /\ NewIteration
    /\ choice' = "7"
    /\ farewell' = TRUE
    /\ pc' = "terminated"
    /\ diag' = 0 /\ errMsg' = "none" /\ writes' = 0
    /\ appError' = topLevel(FALSE).appError
    /\ exitStatus' = topLevel(FALSE).exitStatus
    /\ NoStoreCall /\ NoTraffic /\ NoForecast
    /\ UNCHANGED <<env, session, favorites>>

\* default branch
invalidChoice ==
    /\ NewIteration
    /\ choice' = "other"
    /\ Caught(FALSE, "none")
    /\ writes' = 0
    /\ NoStoreCall /\ NoTraffic /\ NoForecast
    /\ UNCHANGED <<env, session, favorites, farewell, appError, exitStatus>>

Next ==
    \/ \E input \in KeyInputs, w \in WriteOutcomes : run(input, w)
    \/ menuCrash
    \/ \E input \in RawInputs : handleCurrentWeather(input)
    \/ \E b \in WeatherBodies : weatherResponse(Http("ok", 200, b))
    \/ \E r \in Failures : weatherResponse(r)
    \/ \E input \in RawInputs : handleForecast(input)
    \/ \E b \in ForecastBodies : forecastResponse(Http("ok", 200, b))
    \/ \E r \in Failures : forecastResponse(r)
    \/ listFavorites
    \/ \E input \in RawInputs, w \in WriteOutcomes : handleAddFavorite(input, w)
    \/ \E input \in RawInputs, w \in WriteOutcomes : handleRemoveFavorite(input, w)
    \/ \E input \in KeyInputs, w \in WriteOutcomes : changeApiKey(input, w)
    \/ exit
    \/ invalidChoice

Spec == Init /\ [][Next]_vars

\* ------------------------------------------- displayForecast on its own
\* The forecast display applied to every list of up to MaxEntries samples
\* whose instants are 15:00 UTC of the days 0..MaxDay or 03:00 UTC of day 0.
DtValues == {d * DaySeconds + 54000 : d \in 0..MaxDay} \cup {10800}
SampleEntries == {Entry(dt, 1000, "clear", 40, 3) : dt \in DtValues}

ForecastInit ==
    /\ build = "part_000"
    /\ tzOffset \in TzOffsets
    /\ pc = "menu"
    /\ configFile = File("json", [hasKey |-> TRUE, apiKey |-> "k1"])
    /\ favoritesFile = File("absent", JNull)
    /\ apiKey = loadApiKey(configFile)
    /\ favoriteCities = loadFavoriteCities(favoritesFile).value
    /\ choice = "2" /\ call = "none" /\ arg = <<"T">> /\ outcome = "none"
    /\ diag = 0 /\ errMsg = "none" /\ farewell = FALSE /\ appError = FALSE
    /\ exitStatus = -1
    /\ reqs = 1 /\ writes = 0 /\ inflight = 0
    /\ endpoint = "forecast"
    /\ resp = Http("ok", 200, Body(TRUE, <<>>))
    /\ fetched = getForecast(resp)
    /\ fcList = <<>>
    /\ presented = displayForecast(fcList, tzOffset)
    /\ printed = renderAll(presented)

\* the same request answered with one more sample at the end of the list
forecastSample(e) ==
    /\ Len(fcList) < MaxEntries
    /\ fcList' = Append(fcList, e)
    /\ resp' = Http("ok", 200, Body(TRUE, fcList'))
    /\ fetched' = getForecast(resp')
    /\ presented' = displayForecast(fetched'.data.list, tzOffset)
    /\ printed' = renderAll(presented')
    /\ UNCHANGED <<env, pc, session, favorites, choice, call, arg, outcome, diag,
                   errMsg, farewell, appError, exitStatus, reqs, writes, inflight,
                   endpoint>>

ForecastNext == \E e \in SampleEntries : forecastSample(e)

ForecastSpec == ForecastInit /\ [][ForecastNext]_vars

\* ---------------------------------------- the buckets of displayForecast
\* The forecast display applied to every list of up to MaxSamples samples
\* taken at 03:00 and 15:00 UTC of day 0 and 15:00 UTC of day 1, with three
\* temperatures (hundredths of a degree) and two conditions.
BucketDts == {10800, 54000, 140400}
BucketTemps == {500, 1000, 2025}
BucketEntries ==
    {Entry(dt, t, "clear", 40, 3) : dt \in BucketDts, t \in BucketTemps}
    \cup {Entry(dt, t, "rain", 55, 7) : dt \in BucketDts, t \in BucketTemps}

bucketSample(e) ==
    /\ Len(fcList) < MaxSamples
    /\ fcList' = Append(fcList, e)
    /\ resp' = Http("ok", 200, Body(TRUE, fcList'))
    /\ fetched' = getForecast(resp')
    /\ presented' = displayForecast(fetched'.data.list, tzOffset)
    /\ printed' = renderAll(presented')
    /\ UNCHANGED <<env, pc, session, favorites, choice, call, arg, outcome, diag,
                   errMsg, farewell, appError, exitStatus, reqs, writes, inflight,
                   endpoint>>

BucketNext == \E e \in BucketEntries : bucketSample(e)

BucketSpec == ForecastInit /\ [][BucketNext]_vars

\* ================================================================== claims
IsList(fav) == fav.tag = "array"
NoDup(list) == \A i, j \in 1..Len(list) : i # j => list[i] # list[j]

\* C1: from a favorites list without duplicates, no add or remove produces a
\* list in which a city occurs twice, and an add of a city already in the
\* list (exact match) leaves the list as it was.
C1_FavoritesUnique ==
    [][ /\ (IsList(favoriteCities) /\ NoDup(favoriteCities.items))
            => (IsList(favoriteCities') /\ NoDup(favoriteCities'.items))
        /\ (call' = "addFavoriteCity" /\ IsList(favoriteCities)
              /\ includes(favoriteCities.items, arg'))
            => (favoriteCities' = favoriteCities /\ outcome' = "already_present")
      ]_vars

C1_Witness ==
    /\ call = "addFavoriteCity" /\ outcome = "already_present"
    /\ IsList(favoriteCities) /\ NoDup(favoriteCities.items)
    /\ Len(favoriteCities.items) = 2
    /\ includes(favoriteCities.items, arg)

\* C2: back at the menu after an add or remove command, whether it succeeded
\* or its write failed, the list in memory is the list the favorites file
\* holds.
C2_MemoryEqualsFile ==
    (pc = "menu" /\ choice \in {"4", "5"})
        => favoriteCities = loadFavoriteCities(favoritesFile).value

\* C3: the program terminates only after the user chose exit, and then the
\* farewell line was printed.
C3_OnlyExitTerminates ==
    pc = "terminated" => (choice = "7" /\ farewell)

\* C4: an error raised by the handler of a command 1-6 is caught by the
\* loop, exactly one diagnostic line is printed, and control is at the menu
\* again, which is printed and reads the next choice.
HandlerCommands == {"1", "2", "3", "4", "5", "6"}
C4_HandlerErrorCaught ==
    (choice \in HandlerCommands /\ errMsg # "none")
        => /\ pc = "menu"
           /\ diag = 1
           /\ ~appError /\ exitStatus = -1
           /\ ~printMenu(build).raised

C4_Witness ==
    /\ choice = "4" /\ errMsg = "WriteError" /\ pc = "menu" /\ diag = 1

\* C5: getCurrentWeather raises CityNotFound on a 404, InvalidCredential on
\* a 401, FetchFailed on every other failure (another status, or no
\* response at all), and on success returns the body and raises nothing.
C5_Classification ==
    (endpoint = "weather" /\ resp.kind # "none")
        => /\ (resp.kind = "status" /\ resp.status = 404)
                => (fetched.raised /\ fetched.message = "CityNotFound")
           /\ (resp.kind = "status" /\ resp.status = 401)
                => (fetched.raised /\ fetched.message = "InvalidCredential")
           /\ (resp.kind = "network" \/ (resp.kind = "status" /\ resp.status \notin {404, 401}))
                => (fetched.raised /\ fetched.message = "FetchFailed")
           /\ resp.kind = "ok"
                => (~fetched.raised /\ fetched.data = resp.body)

C5_Witness ==
    /\ endpoint = "weather" /\ resp.kind = "status" /\ resp.status = 401
    /\ fetched.message = "InvalidCredential" /\ errMsg = "InvalidCredential"

\* C6: displayForecast presents at most 5 buckets, and they are the first 5
\* distinct date keys of the input in the order of their first occurrence
\* (all of them when there are fewer than 5).
InputKeys == [i \in 1..Len(fcList) |-> dateKey(fcList[i].dt, tzOffset)]
FirstOccurrencesOf(keys) ==
    {i \in DOMAIN keys : \A j \in 1..(i - 1) : keys[j] # keys[i]}
C6_FirstFiveDays ==
    LET keys == InputKeys
        firsts == FirstOccurrencesOf(keys)
        n == IF Cardinality(firsts) < 5 THEN Cardinality(firsts) ELSE 5
    IN  /\ Len(presented) = n
        /\ \A k \in 1..n :
             \E i \in firsts :
                 /\ presented[k].date = keys[i]
                 /\ Cardinality({j \in firsts : j < i}) = k - 1

C6_Witness ==
    /\ Len(fcList) = 6
    /\ Cardinality(FirstOccurrencesOf(InputKeys)) = 6
    /\ Len(presented) = 5
    /\ presented[1].date > presented[2].date
    /\ InputKeys[6] < presented[1].date

\* C7: a remove of a city that is not in the list reports not_found, leaves
\* the list in memory as it was (contents and order) and writes no file.
C7_RemoveAbsent ==
    [][ (call' = "removeFavoriteCity" /\ IsList(favoriteCities)
           /\ ~includes(favoriteCities.items, arg'))
        => /\ outcome' = "not_found"
           /\ favoriteCities' = favoriteCities
           /\ favoritesFile' = favoritesFile
           /\ writes' = 0
           /\ errMsg' = "none"
      ]_vars

C7_Witness ==
    /\ call = "removeFavoriteCity" /\ outcome = "not_found"
    /\ Len(favoriteCities.items) = 2 /\ ~includes(favoriteCities.items, arg)
    /\ writes = 0

\* C8: whatever the favorites file holds, loadFavoriteCities raises nothing
\* and returns a list of city names, the empty list when the file is absent,
\* unreadable or does not parse.
C8_LoadYieldsList ==
    pc = "run"
        => /\ ~loadFavoriteCities(favoritesFile).raised
           /\ IsList(favoriteCities)
           /\ favoritesFile.kind \in {"absent", "unreadable", "malformed"}
                => favoriteCities = JArray(<<>>)

\* C9: an iteration reads the choice first, then issues at most one request,
\* which is answered before the menu is prompted again, and makes at most
\* one file write; never are two requests, or a request and a write, under
\* way together.
C9_Sequential ==
    /\ inflight \in {0, 1}
    /\ reqs <= 1 /\ writes <= 1
    /\ inflight = 1 => (pc \in {"awaitWeather", "awaitForecast"} /\ writes = 0)
    /\ pc \in {"run", "menu", "terminated"} => inflight = 0
    /\ reqs > 0 => choice \in {"1", "2"}
    /\ (writes > 0 /\ pc # "run") => (choice \in {"4", "5", "6"} \/ choice = "none")
    /\ (writes > 0 /\ choice = "none") => (reqs = 0 /\ diag = 0)

C9_Witness ==
    /\ pc = "awaitForecast" /\ inflight = 1 /\ reqs = 1 /\ choice = "2"

\* C10 as stated: status zero after exit; after an error that left run(), a
\* diagnostic and a non-zero status.
C10_ExitStatus ==
    /\ (pc = "terminated" /\ choice = "7") => exitStatus = 0
    /\ (pc = "terminated" /\ errMsg # "none") => (appError /\ exitStatus # 0)

\* C10 amended: status zero after exit; after an error that left run(), the
\* top-level diagnostic is printed and the status is zero as well.
C10_ExitStatusHandled ==
    /\ (pc = "terminated" /\ choice = "7") => (exitStatus = 0 /\ ~appError)
    /\ (pc = "terminated" /\ errMsg # "none") => (appError /\ exitStatus = 0)
    /\ pc # "terminated" => (exitStatus = -1 /\ ~appError)

C10_Witness ==
    /\ pc = "terminated" /\ errMsg = "WriteError" /\ appError /\ exitStatus = 0
    /\ build = "part_000"

\* C11: each presented bucket holds the temperatures of exactly the input
\* entries with its date key, in input order, so the printed minimum and
\* maximum are the least and greatest of them (to one decimal); its
\* condition, humidity and wind speed are those of the first such entry.
IndicesOf(keys, key) == {i \in DOMAIN keys : keys[i] = key}
LeastOf(set) == CHOOSE x \in set : \A y \in set : x <= y
GreatestOf(set) == CHOOSE x \in set : \A y \in set : x >= y
RECURSIVE TempsAt(_, _)
TempsAt(list, idx) ==
    IF list = <<>> THEN <<>>
    ELSE TempsAt(SubSeq(list, 1, Len(list) - 1), idx)
         \o (IF Len(list) \in idx THEN <<list[Len(list)].temp>> ELSE <<>>)
C11_BucketContents ==
    LET keys == InputKeys
    IN  /\ Len(printed) = Len(presented)
        /\ \A k \in 1..Len(presented) :
             LET idx == IndicesOf(keys, presented[k].date)
                 first == fcList[LeastOf(idx)]
                 temps == {fcList[i].temp : i \in idx}
             IN  /\ idx # {}
                 /\ presented[k].temps = TempsAt(fcList, idx)
                 /\ printed[k].date = presented[k].date
                 /\ printed[k].min = toFixed1(LeastOf(temps))
                 /\ printed[k].max = toFixed1(GreatestOf(temps))
                 /\ presented[k].weather = first.weather
                 /\ presented[k].humidity = first.humidity
                 /\ presented[k].windSpeed = first.windSpeed
                 /\ printed[k].weather = first.weather
                 /\ printed[k].humidity = first.humidity
                 /\ printed[k].windSpeed = first.windSpeed

C11_Witness ==
    /\ Len(fcList) = 3
    /\ Len(presented) = 2
    /\ presented[1].temps = <<1000, 2025>>
    /\ presented[2].temps = <<500>>
    /\ printed[1].min = 100 /\ printed[1].max = 203
    /\ fcList[1].weather = "rain" /\ fcList[2].weather = "clear"
    /\ presented[1].weather = "rain" /\ presented[1].humidity = 55
    /\ presented[1].windSpeed = 7

====
